---- MODULE Spec2Model ----
(***************************************************************************)
(* Verification model of the Jordy C BBQ Cup tournament tracker            *)
(* (src/src/App.jsx): the engine functions (score validation, round-robin  *)
(* scheduling, standings, knockout pairing) as operators, and the App      *)
(* component's state and handlers as a state machine.                      *)
(*                                                                         *)
(* Conventions.                                                            *)
(*  - A score is a natural number; an absent score (JS undefined, the      *)
(*    empty input of ScoreInput) is Undefined.                             *)
(*  - uid() is modelled as a source of fresh identifiers: player and match *)
(*    ids are naturals that are new with respect to everything the state   *)
(*    still holds.  An absent id (null / undefined) is NoId.               *)
(*  - A name is a string; localeCompare is the position in NameOrder.      *)
(*  - call / ret are the argument and the result of an engine function     *)
(*    applied on its own (the specifications SpecValidate, SpecSchedule,   *)
(*    SpecStandings, SpecKnockout).                                        *)
(***************************************************************************)
EXTENDS Integers, Sequences, FiniteSets, TLC

VARIABLES players, groups, mode, stage, rounds, champion, target, bracketSkin,
          call, ret

vars == <<players, groups, mode, stage, rounds, champion, target, bracketSkin,
          call, ret>>

appVars == <<players, groups, mode, stage, rounds, champion, target, bracketSkin>>

-----------------------------------------------------------------------------
(* Values *)

Undefined == -1

NoId == 0

DefaultTarget == 21

Targets == {11, 21}

MinGroupsCount == 8

MinSingleCount == 4

MaxCount == 32

GroupSize == 4

WinPoints == 3

-----------------------------------------------------------------------------
(* Generic helpers *)

Range(s) == {s[i] : i \in DOMAIN s}

Max2(x, y) == IF x >= y THEN x ELSE y

Min2(x, y) == IF x <= y THEN x ELSE y

\* JS `x > y` on scores: false as soon as one side is undefined
Gt(x, y) == x # Undefined /\ y # Undefined /\ x > y

-----------------------------------------------------------------------------
(* Scoring validation: validateCornholeScore *)

ErrMissing == "Enter both scores"

ErrDraw == "No draws in cornhole"

ErrWinner == "Winner must have exactly target"

ErrLoser == "Loser must be below target"

Valid == "null"

\* mutant: only the first score is compared with the target
validateOnlyFirst(sa, sb, t) ==
    IF sa = Undefined \/ sb = Undefined THEN ErrMissing
    ELSE IF sa = sb THEN ErrDraw
    ELSE IF sa # t THEN ErrWinner
    ELSE IF Min2(sa, sb) >= t THEN ErrLoser
    ELSE Valid

validateCornholeScore(sa, sb, t) ==
    IF sa = Undefined \/ sb = Undefined THEN ErrMissing
    ELSE IF sa = sb THEN ErrDraw
    ELSE IF Max2(sa, sb) # t THEN ErrWinner
    ELSE IF Min2(sa, sb) >= t THEN ErrLoser
    ELSE Valid

-----------------------------------------------------------------------------
(* Matches and the round-robin schedule: scheduleRoundRobin4 *)

\* a freshly created match { id, a, b }: no scores, not completed
NewMatch(id, a, b) ==
    [id |-> id, a |-> a, b |-> b,
     scoreA |-> Undefined, scoreB |-> Undefined, completed |-> FALSE]

\* mutant: the last match repeats B against D instead of C against D
scheduleRepeatsPair(ids, uid0) ==
    LET A == ids[1]
        B == ids[2]
        C == ids[3]
        D == ids[4]
    IN  << NewMatch(uid0 + 1, A, B),
           NewMatch(uid0 + 2, A, C),
           NewMatch(uid0 + 3, A, D),
           NewMatch(uid0 + 4, B, C),
           NewMatch(uid0 + 5, B, D),
           NewMatch(uid0 + 6, B, D) >>

\* uid0 is the last identifier handed out so far; the six calls of uid()
\* yield uid0 + 1 .. uid0 + 6
scheduleRoundRobin4(ids, uid0) ==
    LET A == ids[1]
        B == ids[2]
        C == ids[3]
        D == ids[4]
    IN  << NewMatch(uid0 + 1, A, B),
           NewMatch(uid0 + 2, A, C),
           NewMatch(uid0 + 3, A, D),
           NewMatch(uid0 + 4, B, C),
           NewMatch(uid0 + 5, B, D),
           NewMatch(uid0 + 6, C, D) >>

-----------------------------------------------------------------------------
(* Standings: computeStandings *)

\* collation order of the names used in the model ("?" is the fallback name)
NameOrder == << "?", "alfa", "baldy", "bravo", "charlie", "delta" >>

NameRank(n) == CHOOSE i \in DOMAIN NameOrder : NameOrder[i] = n

localeCompare(x, y) ==
    IF NameRank(x) < NameRank(y) THEN -1
    ELSE IF NameRank(x) > NameRank(y) THEN 1 ELSE 0

\* playersIndex[pid]?.name || "?"
NameOf(playersIndex, pid) ==
    IF pid \in DOMAIN playersIndex /\ playersIndex[pid].name # ""
    THEN playersIndex[pid].name ELSE "?"

ZeroRow(playersIndex, pid) ==
    [id |-> pid, name |-> NameOf(playersIndex, pid),
     P |-> 0, W |-> 0, L |-> 0, PF |-> 0, PA |-> 0, PD |-> 0, Pts |-> 0]

\* mutant: the completed flag is not looked at, a match counts as soon as it
\* carries scores
AccumulateAnyScored(row, m) ==
    IF m.scoreA = Undefined \/ m.scoreB = Undefined THEN row
    ELSE LET aWins == Gt(m.scoreA, m.scoreB)
             a1 == [row[m.a] EXCEPT !.P = @ + 1,
                                    !.PF = @ + m.scoreA,
                                    !.PA = @ + m.scoreB]
             a2 == [a1 EXCEPT !.PD = a1.PF - a1.PA,
                              !.W = IF aWins THEN @ + 1 ELSE @,
                              !.L = IF aWins THEN @ ELSE @ + 1,
                              !.Pts = IF aWins THEN @ + WinPoints ELSE @]
             r1 == [row EXCEPT ![m.a] = a2]
             b1 == [r1[m.b] EXCEPT !.P = @ + 1,
                                   !.PF = @ + m.scoreB,
                                   !.PA = @ + m.scoreA]
             b2 == [b1 EXCEPT !.PD = b1.PF - b1.PA,
                              !.W = IF aWins THEN @ ELSE @ + 1,
                              !.L = IF aWins THEN @ + 1 ELSE @,
                              !.Pts = IF aWins THEN @ ELSE @ + WinPoints]
         IN  [r1 EXCEPT ![m.b] = b2]

\* one iteration of the loop over group.matches
AccumulateMatch(row, m) ==
    IF ~m.completed THEN row
    ELSE LET aWins == Gt(m.scoreA, m.scoreB)
             a1 == [row[m.a] EXCEPT !.P = @ + 1,
                                    !.PF = @ + m.scoreA,
                                    !.PA = @ + m.scoreB]
             a2 == [a1 EXCEPT !.PD = a1.PF - a1.PA,
                              !.W = IF aWins THEN @ + 1 ELSE @,
                              !.L = IF aWins THEN @ ELSE @ + 1,
                              !.Pts = IF aWins THEN @ + WinPoints ELSE @]
             r1 == [row EXCEPT ![m.a] = a2]
             b1 == [r1[m.b] EXCEPT !.P = @ + 1,
                                   !.PF = @ + m.scoreB,
                                   !.PA = @ + m.scoreA]
             b2 == [b1 EXCEPT !.PD = b1.PF - b1.PA,
                              !.W = IF aWins THEN @ ELSE @ + 1,
                              !.L = IF aWins THEN @ + 1 ELSE @,
                              !.Pts = IF aWins THEN @ ELSE @ + WinPoints]
         IN  [r1 EXCEPT ![m.b] = b2]

RECURSIVE Accumulate(_, _)
Accumulate(row, matches) ==
    IF matches = <<>> THEN row
    ELSE Accumulate(AccumulateMatch(row, Head(matches)), Tail(matches))

\* mutant: the point difference is left out of the comparison
CompareRowsNoPD(x, y) ==
    IF y.Pts - x.Pts # 0 THEN y.Pts - x.Pts
    ELSE IF y.PF - x.PF # 0 THEN y.PF - x.PF
    ELSE localeCompare(x.name, y.name)

\* the comparator of table.sort: negative when x goes first
CompareRows(x, y) ==
    IF y.Pts - x.Pts # 0 THEN y.Pts - x.Pts
    ELSE IF y.PD - x.PD # 0 THEN y.PD - x.PD
    ELSE IF y.PF - x.PF # 0 THEN y.PF - x.PF
    ELSE localeCompare(x.name, y.name)

\* Array.prototype.sort is stable: x is placed behind every row that does
\* not compare greater than it
RECURSIVE InsertRow(_, _)
InsertRow(sorted, x) ==
    IF sorted = <<>> THEN <<x>>
    ELSE IF CompareRows(Head(sorted), x) <= 0
         THEN <<Head(sorted)>> \o InsertRow(Tail(sorted), x)
         ELSE <<x>> \o sorted

RECURSIVE SortRows(_)
SortRows(table) ==
    IF table = <<>> THEN <<>>
    ELSE InsertRow(SortRows(SubSeq(table, 1, Len(table) - 1)), table[Len(table)])

computeStandings(group, playersIndex) ==
    LET row0 == [pid \in Range(group.players) |-> ZeroRow(playersIndex, pid)]
        row == Accumulate(row0, group.matches)
        table == [i \in DOMAIN group.players |-> row[group.players[i]]]
    IN  SortRows(table)

-----------------------------------------------------------------------------
(* Knockout pairing: buildKnockout *)

\* String.fromCharCode(65 + i); the default sort of strings is this order
GroupLabels == << "A", "B", "C", "D", "E", "F", "G", "H" >>

LabelRank(n) == CHOOSE i \in DOMAIN GroupLabels : GroupLabels[i] = n

RECURSIVE InsertLabel(_, _)
InsertLabel(sorted, x) ==
    IF sorted = <<>> THEN <<x>>
    ELSE IF LabelRank(Head(sorted)) <= LabelRank(x)
         THEN <<Head(sorted)>> \o InsertLabel(Tail(sorted), x)
         ELSE <<x>> \o sorted

RECURSIVE SortLabels(_)
SortLabels(names) ==
    IF names = <<>> THEN <<>>
    ELSE InsertLabel(SortLabels(SubSeq(names, 1, Len(names) - 1)), names[Len(names)])

\* table[0]?.id, table[1]?.id of the (last) group called name
Advancers(gs, playersIndex, name) ==
    LET i == CHOOSE k \in DOMAIN gs :
                 gs[k].name = name /\ \A j \in DOMAIN gs : gs[j].name = name => j <= k
        table == computeStandings(gs[i], playersIndex)
    IN  << IF Len(table) >= 1 THEN table[1].id ELSE NoId,
           IF Len(table) >= 2 THEN table[2].id ELSE NoId >>

\* mutant: a group left over at the end is paired with the first group
RECURSIVE PairGroupsWrap(_, _, _, _, _, _)
PairGroupsWrap(gs, playersIndex, order, i, pairings, uid0) ==
    IF i > Len(order) THEN pairings
    ELSE LET other == IF i + 1 > Len(order) THEN 1 ELSE i + 1
             adv1 == Advancers(gs, playersIndex, order[i])
             adv2 == Advancers(gs, playersIndex, order[other])
             p1 == IF adv1[1] # NoId /\ adv2[2] # NoId
                   THEN Append(pairings,
                               NewMatch(uid0 + Len(pairings) + 1, adv1[1], adv2[2]))
                   ELSE pairings
             p2 == IF adv2[1] # NoId /\ adv1[2] # NoId
                   THEN Append(p1, NewMatch(uid0 + Len(p1) + 1, adv2[1], adv1[2]))
                   ELSE p1
         IN  PairGroupsWrap(gs, playersIndex, order, i + 2, p2, uid0)

\* the loop `for (i = 0; i < order.length; i += 2)`, i counted from 1 here
RECURSIVE PairGroups(_, _, _, _, _, _)
PairGroups(gs, playersIndex, order, i, pairings, uid0) ==
    IF i > Len(order) \/ i + 1 > Len(order) THEN pairings
    ELSE LET adv1 == Advancers(gs, playersIndex, order[i])
             adv2 == Advancers(gs, playersIndex, order[i + 1])
             g1w == adv1[1]
             g1r == adv1[2]
             g2w == adv2[1]
             g2r == adv2[2]
             p1 == IF g1w # NoId /\ g2r # NoId
                   THEN Append(pairings, NewMatch(uid0 + Len(pairings) + 1, g1w, g2r))
                   ELSE pairings
             p2 == IF g2w # NoId /\ g1r # NoId
                   THEN Append(p1, NewMatch(uid0 + Len(p1) + 1, g2w, g1r))
                   ELSE p1
         IN  PairGroups(gs, playersIndex, order, i + 2, p2, uid0)

\* mutant: the groups are taken in the order of the input, not sorted by name
buildKnockoutUnsorted(gs, playersIndex, uid0) ==
    PairGroups(gs, playersIndex, [i \in DOMAIN gs |-> gs[i].name], 1, <<>>, uid0)

buildKnockout(gs, playersIndex, uid0) ==
    LET order == SortLabels([i \in DOMAIN gs |-> gs[i].name])
    IN  PairGroups(gs, playersIndex, order, 1, <<>>, uid0)

-----------------------------------------------------------------------------
(* Utilities: shuffle, chunk, isPowerOfTwo, buildSingleElimFirstRound *)

Swap(a, i, j) == [a EXCEPT ![i] = a[j], ![j] = a[i]]

\* mutant: the loop leaves one step early, the second element is never drawn
RECURSIVE ShuffleFromStopsEarly(_, _, _)
ShuffleFromStopsEarly(a, i, draws) ==
    IF i <= 2 THEN a
    ELSE ShuffleFromStopsEarly(Swap(a, i, draws[i]), i - 1, draws)

\* the loop `for (i = a.length - 1; i > 0; i--)` of shuffle, positions
\* counted from 1: draws[i] \in 1..i is Math.floor(Math.random() * (i + 1))
RECURSIVE ShuffleFrom(_, _, _)
ShuffleFrom(a, i, draws) ==
    IF i <= 1 THEN a
    ELSE ShuffleFrom(Swap(a, i, draws[i]), i - 1, draws)

shuffle(arr, draws) == ShuffleFrom(arr, Len(arr), draws)

\* `const a = [...arr]`: the loop works on a copy; this is the caller's array
\* once shuffle has returned
ArrAfterShuffle(arr, draws) == arr

\* the sequences of draws shuffle may see for n elements
AllDraws(n) == { d \in [1..n -> 1..n] : \A i \in 1..n : d[i] <= i }

\* mutant: every slice is taken from the start of the array
chunkFromStart(arr, size) ==
    [c \in 1..((Len(arr) + size - 1) \div size) |->
        SubSeq(arr, 1, Min2(size, Len(arr)))]

chunk(arr, size) ==
    [c \in 1..((Len(arr) + size - 1) \div size) |->
        SubSeq(arr, size * (c - 1) + 1, Min2(size * c, Len(arr)))]

RECURSIVE BitAnd(_, _)
BitAnd(x, y) ==
    IF x = 0 \/ y = 0 THEN 0
    ELSE (IF x % 2 = 1 /\ y % 2 = 1 THEN 1 ELSE 0) + 2 * BitAnd(x \div 2, y \div 2)

\* mutant: only the lowest bit is tested
isPowerOfTwoLowBit(n) == n % 2 = 0

\* (n & (n - 1)) === 0, for the n >= 1 a list of names can have
isPowerOfTwo(n) == BitAnd(n, n - 1) = 0

\* mutant: the loop advances by one, pairing every element with its successor
buildSingleElimStepOne(ids, draws, uid0) ==
    LET seeded == shuffle(ids, draws)
    IN  [k \in 1..(Len(seeded) - 1) |-> NewMatch(uid0 + k, seeded[k], seeded[k + 1])]

\* seeded[i + 1] is undefined behind the end of an odd list
buildSingleElimFirstRound(ids, draws, uid0) ==
    LET seeded == shuffle(ids, draws)
    IN  [k \in 1..((Len(seeded) + 1) \div 2) |->
            NewMatch(uid0 + k, seeded[2 * k - 1],
                     IF 2 * k <= Len(seeded) THEN seeded[2 * k] ELSE NoId)]

-----------------------------------------------------------------------------
(* The App component's state after construction with an empty store *)

NoCall == <<>>

NoRet == <<>>

AppInit ==
    /\ players = <<>>
    /\ groups = <<>>
    /\ mode = "groups"
    /\ stage = "setup"
    /\ rounds = <<>>
    /\ champion = NoId
    /\ target = DefaultTarget
    /\ bracketSkin = FALSE

-----------------------------------------------------------------------------
(* validateCornholeScore applied on its own *)

MaxScoreArg == 23

ScoreArgs == {Undefined} \cup 0..MaxScoreArg

InitValidate ==
    /\ AppInit
    /\ call \in [sa : ScoreArgs, sb : ScoreArgs, t : Targets]
    /\ ret = NoRet

ApplyValidate ==
    /\ ret = NoRet
    /\ ret' = << validateCornholeScore(call.sa, call.sb, call.t) >>
    /\ UNCHANGED <<appVars, call>>

NextValidate == ApplyValidate

SpecValidate == InitValidate /\ [][NextValidate]_vars

\* C1: for present scores, validateCornholeScore returns null exactly when the
\* larger score equals the target, the smaller one is below it and the two
\* differ; otherwise it returns one of the error messages.
C1_ValidIff ==
    (ret # NoRet /\ call.sa # Undefined /\ call.sb # Undefined) =>
        LET hi == IF call.sa >= call.sb THEN call.sa ELSE call.sb
            lo == IF call.sa >= call.sb THEN call.sb ELSE call.sa
            ok == hi = call.t /\ lo < call.t /\ call.sa # call.sb
        IN  /\ (ret[1] = Valid) <=> ok
            /\ ~ok => ret[1] \in {ErrDraw, ErrWinner, ErrLoser}

C1_Witness ==
    /\ ret = << Valid >>
    /\ call.t = 11
    /\ call.sa < call.sb

\* C27: validateCornholeScore fails with the loser-score-too-high error
\* whenever both scores are present and the smaller one is at least the
\* target.
C27_LoserErrorWhenMinAtTarget ==
    ( /\ ret # NoRet
      /\ call.sa # Undefined /\ call.sb # Undefined
      /\ Min2(call.sa, call.sb) >= call.t )
    => ret[1] = ErrLoser

-----------------------------------------------------------------------------
(* scheduleRoundRobin4 applied on its own *)

MaxPid == 5

\* the sequences of 4 pairwise distinct player ids
FourIds ==
    { ids \in [1..GroupSize -> 1..MaxPid] :
        \A i, j \in 1..GroupSize : i # j => ids[i] # ids[j] }

InitSchedule ==
    /\ AppInit
    /\ call \in [ids : FourIds, uid0 : {0, 6}]
    /\ ret = NoRet

ApplySchedule ==
    /\ ret = NoRet
    /\ ret' = << scheduleRoundRobin4(call.ids, call.uid0) >>
    /\ UNCHANGED <<appVars, call>>

NextSchedule == ApplySchedule

SpecSchedule == InitSchedule /\ [][NextSchedule]_vars

\* C4: for 4 distinct ids (p1, p2, p3, p4) the schedule is exactly the 6
\* matches (p1,p2), (p1,p3), (p1,p4), (p2,p3), (p2,p4), (p3,p4) in this order,
\* so the unordered pairs are the 6 two-element subsets, each once, and every
\* match starts without scores and not completed.
C4_RoundRobin ==
    ret # NoRet =>
        LET sched == ret[1]
            p == call.ids
            pairs == { {sched[k].a, sched[k].b} : k \in DOMAIN sched }
        IN  /\ Len(sched) = 6
            /\ [k \in 1..6 |-> << sched[k].a, sched[k].b >>]
                 = << <<p[1], p[2]>>, <<p[1], p[3]>>, <<p[1], p[4]>>,
                      <<p[2], p[3]>>, <<p[2], p[4]>>, <<p[3], p[4]>> >>
            /\ pairs = { pr \in SUBSET Range(p) : Cardinality(pr) = 2 }
            /\ Cardinality(pairs) = 6
            /\ \A k \in 1..6 :
                 /\ sched[k].scoreA = Undefined
                 /\ sched[k].scoreB = Undefined
                 /\ ~sched[k].completed

C4_Witness ==
    /\ ret # NoRet
    /\ call.ids = << 3, 1, 5, 2 >>
    /\ Len(ret[1]) = 6

-----------------------------------------------------------------------------
(* computeStandings applied on its own *)

\* what a match of the group holds: nothing, or a saved result
StandingsOutcomes ==
    { [scoreA |-> Undefined, scoreB |-> Undefined, completed |-> FALSE],
      [scoreA |-> 21, scoreB |-> 0, completed |-> TRUE],
      [scoreA |-> 0, scoreB |-> 21, completed |-> TRUE],
      [scoreA |-> 21, scoreB |-> 10, completed |-> TRUE],
      [scoreA |-> 10, scoreB |-> 21, completed |-> TRUE] }

\* the names of players 1..4: distinct, all equal, two equal
StandingsNames ==
    { << "delta", "charlie", "bravo", "alfa" >>,
      << "baldy", "baldy", "baldy", "baldy" >>,
      << "baldy", "alfa", "baldy", "charlie" >> }

IndexOfNames(names) ==
    [pid \in DOMAIN names |-> [id |-> pid, name |-> names[pid], seed |-> pid]]

\* the group of players 1..4 whose k-th match holds outs[k]; with carry, a
\* match that is not completed carries scores all the same
GroupWith(outs, carry) ==
    LET sched == scheduleRoundRobin4(<< 1, 2, 3, 4 >>, 0)
    IN  [name |-> "A",
         players |-> << 1, 2, 3, 4 >>,
         matches |->
            [k \in 1..6 |->
                IF ~outs[k].completed /\ carry
                THEN [sched[k] EXCEPT !.scoreA = 21, !.scoreB = 10]
                ELSE [sched[k] EXCEPT !.scoreA = outs[k].scoreA,
                                      !.scoreB = outs[k].scoreB,
                                      !.completed = outs[k].completed]]]

InitStandings ==
    /\ AppInit
    /\ \E outs \in [1..6 -> StandingsOutcomes], carry \in BOOLEAN,
          names \in StandingsNames :
          call = [group |-> GroupWith(outs, carry),
                  playersIndex |-> IndexOfNames(names)]
    /\ ret = NoRet

ApplyStandings ==
    /\ ret = NoRet
    /\ ret' = << computeStandings(call.group, call.playersIndex) >>
    /\ UNCHANGED <<appVars, call>>

NextStandings == ApplyStandings

SpecStandings == InitStandings /\ [][NextStandings]_vars

\* the completed matches of the group that pid played
PlayedBy(g, pid) ==
    { k \in DOMAIN g.matches :
        g.matches[k].completed /\ pid \in {g.matches[k].a, g.matches[k].b} }

OwnScore(m, pid) == IF m.a = pid THEN m.scoreA ELSE m.scoreB

OtherScore(m, pid) == IF m.a = pid THEN m.scoreB ELSE m.scoreA

RECURSIVE SumOver(_, _, _, _)
SumOver(g, ks, pid, own) ==
    IF ks = {} THEN 0
    ELSE LET k == CHOOSE x \in ks : TRUE
         IN  (IF own THEN OwnScore(g.matches[k], pid)
                     ELSE OtherScore(g.matches[k], pid))
             + SumOver(g, ks \ {k}, pid, own)

\* C7: one row per group player, computed from the completed matches only:
\* P counts the completed matches played, PF / PA sum the own / opponent
\* scores, PD = PF - PA, W counts the completed matches in which the player
\* scored higher, L = P - W and Pts = 3 * W.
C7_RowsFromCompleted ==
    ret # NoRet =>
        LET g == call.group
            table == ret[1]
        IN  /\ Len(table) = Len(g.players)
            /\ \A pid \in Range(g.players) :
                 \E i \in DOMAIN table :
                    /\ table[i].id = pid
                    /\ \A j \in DOMAIN table : table[j].id = pid => j = i
                    /\ LET r == table[i]
                           played == PlayedBy(g, pid)
                           won == { k \in played :
                                      OwnScore(g.matches[k], pid)
                                        > OtherScore(g.matches[k], pid) }
                       IN  /\ r.P = Cardinality(played)
                           /\ r.PF = SumOver(g, played, pid, TRUE)
                           /\ r.PA = SumOver(g, played, pid, FALSE)
                           /\ r.PD = r.PF - r.PA
                           /\ r.W = Cardinality(won)
                           /\ r.L = r.P - r.W
                           /\ r.Pts = 3 * r.W

\* a group with completed matches next to matches that carry scores but are
\* not completed
C7_Witness ==
    /\ ret # NoRet
    /\ \E k \in DOMAIN call.group.matches :
         ~call.group.matches[k].completed /\ call.group.matches[k].scoreA = 21
    /\ \E i \in DOMAIN ret[1] : ret[1][i].P = 2 /\ ret[1][i].W = 1

\* the sort key (-Pts, -PD, -PF, name) of x is at most that of y
KeyLeq(x, y) ==
    \/ x.Pts > y.Pts
    \/ x.Pts = y.Pts /\ x.PD > y.PD
    \/ x.Pts = y.Pts /\ x.PD = y.PD /\ x.PF > y.PF
    \/ x.Pts = y.Pts /\ x.PD = y.PD /\ x.PF = y.PF
         /\ NameRank(x.name) <= NameRank(y.name)

\* C8: the rows are sorted by Pts descending, then PD descending, then PF
\* descending, then name ascending: each row's key (-Pts, -PD, -PF, name) is
\* at most the next row's; two rows with Pts = 3 each have the larger PD first.
C8_Sorted ==
    ret # NoRet =>
        LET table == ret[1]
        IN  /\ \A i \in 1..(Len(table) - 1) : KeyLeq(table[i], table[i + 1])
            /\ \A i, j \in DOMAIN table :
                 (i < j /\ table[i].Pts = 3 /\ table[j].Pts = 3)
                    => table[i].PD >= table[j].PD

\* two rows tied on Pts and PD are told apart by PF, and two rows tied on all
\* three by the name, against the order of the player list
C8_Witness ==
    /\ ret # NoRet
    /\ \E i \in 1..(Len(ret[1]) - 1) :
         /\ ret[1][i].Pts = 3 /\ ret[1][i + 1].Pts = 3
         /\ ret[1][i].PD = ret[1][i + 1].PD
         /\ ret[1][i].PF > ret[1][i + 1].PF
    /\ \E i \in 1..(Len(ret[1]) - 1) :
         /\ ret[1][i].Pts = ret[1][i + 1].Pts
         /\ ret[1][i].PD = ret[1][i + 1].PD
         /\ ret[1][i].PF = ret[1][i + 1].PF
         /\ ret[1][i].id > ret[1][i + 1].id
         /\ NameRank(ret[1][i].name) < NameRank(ret[1][i + 1].name)

\* the orderings of a player list
Permutations4(ps) ==
    { [i \in DOMAIN ps |-> ps[f[i]]] :
        f \in { h \in [DOMAIN ps -> DOMAIN ps] :
                  \A i, j \in DOMAIN ps : i # j => h[i] # h[j] } }

IdsOf(table) == [i \in DOMAIN table |-> table[i].id]

\* C9: the standings order is total for any input, players sharing a name
\* included: no two distinct rows compare as equal, and the ranking is the
\* same for every ordering of the group's player list.
C9_TotalOrder ==
    ret # NoRet =>
        LET table == ret[1]
        IN  /\ \A i, j \in DOMAIN table :
                 i # j => CompareRows(table[i], table[j]) # 0
            /\ \A ps \in Permutations4(call.group.players) :
                 IdsOf(computeStandings([call.group EXCEPT !.players = ps],
                                        call.playersIndex))
                   = IdsOf(table)

-----------------------------------------------------------------------------
(* buildKnockout applied on its own *)

\* the saved results a group's six matches may hold: each match won 21-0 by
\* its first or 21-10 by its second player, or the group played in part only
KnockoutPatterns ==
    [1..6 -> { [scoreA |-> 21, scoreB |-> 0, completed |-> TRUE],
               [scoreA |-> 10, scoreB |-> 21, completed |-> TRUE] }]
    \cup
    { [k \in 1..6 |-> [scoreA |-> Undefined, scoreB |-> Undefined, completed |-> FALSE]],
      [k \in 1..6 |-> IF k <= 2
                      THEN [scoreA |-> 10, scoreB |-> 21, completed |-> TRUE]
                      ELSE [scoreA |-> Undefined, scoreB |-> Undefined,
                            completed |-> FALSE]] }

KnockoutNames ==
    << "delta", "charlie", "bravo", "alfa", "baldy", "alfa", "baldy", "charlie" >>

\* group number n (label GroupLabels[n], players 4n-3 .. 4n) holding outs
LabelledGroup(n, outs) ==
    LET ids == [i \in 1..GroupSize |-> GroupSize * (n - 1) + i]
        sched == scheduleRoundRobin4(ids, 6 * (n - 1))
    IN  [name |-> GroupLabels[n],
         players |-> ids,
         matches |-> [k \in 1..6 |->
                        [sched[k] EXCEPT !.scoreA = outs[k].scoreA,
                                         !.scoreB = outs[k].scoreB,
                                         !.completed = outs[k].completed]]]

\* two groups A and B, handed over in either order
KnockoutInputs ==
    { << LabelledGroup(1, o1), LabelledGroup(2, o2) >> :
         o1 \in KnockoutPatterns, o2 \in KnockoutPatterns }
    \cup
    { << LabelledGroup(2, o2), LabelledGroup(1, o1) >> :
         o1 \in KnockoutPatterns, o2 \in KnockoutPatterns }

InitKnockout ==
    /\ AppInit
    /\ \E gs \in KnockoutInputs :
          call = [groups |-> gs, playersIndex |-> IndexOfNames(KnockoutNames)]
    /\ ret = NoRet

ApplyKnockout ==
    /\ ret = NoRet
    /\ ret' = << buildKnockout(call.groups, call.playersIndex, 12) >>
    /\ UNCHANGED <<appVars, call>>

NextKnockout == ApplyKnockout

SpecKnockout == InitKnockout /\ [][NextKnockout]_vars

\* the groups of gs in the order of their names
ByName(gs) ==
    CHOOSE s \in [DOMAIN gs -> Range(gs)] :
        /\ Range(s) = Range(gs)
        /\ \A i, j \in DOMAIN s :
             i < j => LabelRank(s[i].name) < LabelRank(s[j].name)

\* C10: buildKnockout orders the groups by name whatever their order in the
\* input, takes them in consecutive pairs (G1, G2) and emits for each pair
\* the match (row 0 of G1's standings against row 1 of G2's) and then the
\* match (row 0 of G2's against row 1 of G1's); two groups yield exactly
\* these 2 matches.
C10_CrossPairs ==
    ret # NoRet =>
        LET gs == ByName(call.groups)
            idx == call.playersIndex
            out == ret[1]
            npairs == Len(gs) \div 2
        IN  /\ Len(out) = 2 * npairs
            /\ Len(gs) = 2 => Len(out) = 2
            /\ \A i \in 1..npairs :
                 LET t1 == computeStandings(gs[2 * i - 1], idx)
                     t2 == computeStandings(gs[2 * i], idx)
                 IN  /\ out[2 * i - 1].a = t1[1].id
                     /\ out[2 * i - 1].b = t2[2].id
                     /\ out[2 * i].a = t2[1].id
                     /\ out[2 * i].b = t1[2].id

\* two complete groups handed over as (B, A)
C10_Witness ==
    /\ ret # NoRet
    /\ Len(call.groups) = 2
    /\ call.groups[1].name = "B" /\ call.groups[2].name = "A"
    /\ \A i \in 1..2 : \A k \in 1..6 : call.groups[i].matches[k].completed
    /\ Len(ret[1]) = 2
    /\ ret[1][1].a \in 1..4 /\ ret[1][1].b \in 5..8
    /\ ret[1][2].a \in 5..8 /\ ret[1][2].b \in 1..4

\* C12: a group with a match that is not completed contributes no advancer
\* to buildKnockout: none of its players is in a pairing, and groups none of
\* whose matches are completed yield no pairings at all.
C12_IncompleteNoAdvancer ==
    ret # NoRet =>
        LET gs == call.groups
            open == { i \in DOMAIN gs :
                        \E k \in DOMAIN gs[i].matches : ~gs[i].matches[k].completed }
        IN  /\ \A i \in open : \A k \in DOMAIN ret[1] :
                 /\ ret[1][k].a \notin Range(gs[i].players)
                 /\ ret[1][k].b \notin Range(gs[i].players)
            /\ (\A i \in DOMAIN gs : \A k \in DOMAIN gs[i].matches :
                    ~gs[i].matches[k].completed) => ret[1] = << >>

-----------------------------------------------------------------------------
(* buildKnockout applied to an odd number of groups *)

\* what the six matches of a group hold: nothing, each won 21-0 by its first
\* player, or each won 21-10 by its second player
OddPatterns ==
    { [k \in 1..6 |-> [scoreA |-> Undefined, scoreB |-> Undefined, completed |-> FALSE]],
      [k \in 1..6 |-> [scoreA |-> 21, scoreB |-> 0, completed |-> TRUE]],
      [k \in 1..6 |-> [scoreA |-> 10, scoreB |-> 21, completed |-> TRUE]] }

\* the names of players 1..20
OddNames == [i \in 1..20 |-> NameOrder[2 + (i % 5)]]

\* the orders in which n groups are handed over: by name, reversed, rotated
OddOrders(n) ==
    { [i \in 1..n |-> i], [i \in 1..n |-> n + 1 - i], [i \in 1..n |-> (i % n) + 1] }

\* 1, 3 or 5 groups
OddInputs ==
    UNION { { [i \in 1..n |-> LabelledGroup(ord[i], outs[ord[i]])] :
                outs \in [1..n -> OddPatterns], ord \in OddOrders(n) } :
            n \in {1, 3, 5} }

InitKnockoutOdd ==
    /\ AppInit
    /\ \E gs \in OddInputs :
          call = [groups |-> gs, playersIndex |-> IndexOfNames(OddNames)]
    /\ ret = NoRet

ApplyKnockoutOdd ==
    /\ ret = NoRet
    /\ ret' = << buildKnockout(call.groups, call.playersIndex, 30) >>
    /\ UNCHANGED <<appVars, call>>

NextKnockoutOdd == ApplyKnockoutOdd

SpecKnockoutOdd == InitKnockoutOdd /\ [][NextKnockoutOdd]_vars

\* C11: for an odd number k of groups buildKnockout returns 2 * floor(k / 2)
\* matches, and no player of the last group in name order is in any of them.
C11_OddGroupDropped ==
    (ret # NoRet /\ Len(call.groups) % 2 = 1) =>
        LET gs == ByName(call.groups)
            last == gs[Len(gs)]
            out == ret[1]
        IN  /\ Len(out) = 2 * (Len(gs) \div 2)
            /\ \A k \in DOMAIN out :
                 /\ out[k].a \notin Range(last.players)
                 /\ out[k].b \notin Range(last.players)

\* three groups handed over as (C, B, A): one pair of matches, none with a
\* player of group C
C11_Witness ==
    /\ ret # NoRet
    /\ Len(call.groups) = 3
    /\ call.groups[1].name = "C"
    /\ Len(ret[1]) = 2
    /\ \A k \in 1..2 : ret[1][k].a \in 1..8 /\ ret[1][k].b \in 1..8

-----------------------------------------------------------------------------
(* The App component: derived values *)

\* Object.fromEntries(players.map(p => [p.id, p]))
PlayersIndexOf(ps) ==
    [pid \in { ps[i].id : i \in DOMAIN ps } |->
        ps[CHOOSE i \in DOMAIN ps :
              ps[i].id = pid /\ \A j \in DOMAIN ps : ps[j].id = pid => j <= i]]

playersIndex == PlayersIndexOf(players)

AllMatches(gs, rs) ==
    UNION { Range(gs[i].matches) : i \in DOMAIN gs }
      \cup UNION { Range(rs[r]) : r \in DOMAIN rs }

\* uid() never returns an identifier that is in use: new match ids lie above
\* every match id of the state, new player ids apart from a champion id that
\* an earlier tournament left behind
LastMatchId(gs, rs) ==
    LET used == { m.id : m \in AllMatches(gs, rs) }
    IN  IF used = {} THEN 0 ELSE CHOOSE x \in used : \A y \in used : y <= x

PlayerIdBase == IF champion \in 1..MaxCount THEN MaxCount ELSE 0

\* what the page shows (the conditions of the render)
SetupShown == stage = "setup"

GroupStageShown == stage = "groups" /\ Len(players) > 0 /\ mode = "groups"

KnockoutShown == stage = "knockout" /\ Len(rounds) > 0 /\ ~bracketSkin

ChampionShown == stage = "champion" /\ champion # NoId

\* groups.every(g => g.matches.every(m => m.completed))
allCompleted ==
    \A i \in DOMAIN groups : \A k \in DOMAIN groups[i].matches :
        groups[i].matches[k].completed

-----------------------------------------------------------------------------
(* The App component: handlers *)

\* seeded = shuffle(names).map((name, i) => ({ id: uid(), name, seed: i + 1 }))
SeedPlayers(names, draws, base) ==
    LET sh == shuffle(names, draws)
    IN  [i \in DOMAIN sh |-> [id |-> base + i, name |-> sh[i], seed |-> i]]

BuildGroups(seeded) ==
    LET chunksArr == chunk(seeded, GroupSize)
    IN  [i \in DOMAIN chunksArr |->
            LET ids == [k \in DOMAIN chunksArr[i] |-> chunksArr[i][k].id]
            IN  [name |-> GroupLabels[i],
                 players |-> ids,
                 matches |-> scheduleRoundRobin4(ids, 6 * (i - 1))]]

GroupsCountOk(count) ==
    count % GroupSize = 0 /\ count >= MinGroupsCount /\ count <= MaxCount

SingleCountOk(count) ==
    isPowerOfTwo(count) /\ count >= MinSingleCount /\ count <= MaxCount

\* players, groups, rounds, stage, mode and bracketSkin after
\* handleSetup({ names, mode: selectedMode }): the skin and the mode are set
\* before the count is looked at
AfterSetup(names, selectedMode, draws1, draws2) ==
    LET count == Len(names)
        seeded == SeedPlayers(names, draws1, PlayerIdBase)
        kept == [players |-> players, groups |-> groups, rounds |-> rounds,
                 stage |-> stage, mode |-> selectedMode, bracketSkin |-> FALSE]
    IN  IF selectedMode = "groups"
        THEN IF ~GroupsCountOk(count)
             THEN kept
             ELSE [players |-> seeded,
                   groups |-> BuildGroups(seeded),
                   rounds |-> << >>,
                   stage |-> "groups",
                   mode |-> selectedMode, bracketSkin |-> FALSE]
        ELSE IF ~SingleCountOk(count)
             THEN kept
             ELSE [players |-> seeded,
                   groups |-> << >>,
                   rounds |-> << buildSingleElimFirstRound(
                                    [i \in DOMAIN seeded |-> seeded[i].id],
                                    draws2, 0) >>,
                   stage |-> "knockout",
                   mode |-> selectedMode, bracketSkin |-> FALSE]

\* Start Tournament with a full list of names: handleSetup
handleSetup(names, selectedMode, draws1, draws2) ==
    /\ SetupShown
    /\ LET after == AfterSetup(names, selectedMode, draws1, draws2)
       IN  /\ bracketSkin' = after.bracketSkin
           /\ mode' = after.mode
           /\ players' = after.players
           /\ groups' = after.groups
           /\ rounds' = after.rounds
           /\ stage' = after.stage
    /\ UNCHANGED <<champion, target, call, ret>>

\* the Target Score select of the setup form
SetTarget(v) ==
    /\ SetupShown
    /\ target' = v
    /\ UNCHANGED <<players, groups, mode, stage, rounds, champion, bracketSkin,
                   call, ret>>

\* the header buttons Setup, Groups, Knockout, Bracket
GoSetup ==
    /\ stage' = "setup"
    /\ UNCHANGED <<players, groups, mode, rounds, champion, target, bracketSkin,
                   call, ret>>

GoGroups ==
    /\ mode = "groups"
    /\ stage' = "groups"
    /\ UNCHANGED <<players, groups, mode, rounds, champion, target, bracketSkin,
                   call, ret>>

GoKnockout ==
    /\ stage' = "knockout"
    /\ bracketSkin' = FALSE
    /\ UNCHANGED <<players, groups, mode, rounds, champion, target, call, ret>>

GoBracket ==
    /\ stage' = "knockout"
    /\ bracketSkin' = TRUE
    /\ UNCHANGED <<players, groups, mode, rounds, champion, target, call, ret>>

\* View Bracket on the champion screen
ViewBracket ==
    /\ ChampionShown
    /\ stage' = "knockout"
    /\ UNCHANGED <<players, groups, mode, rounds, champion, target, bracketSkin,
                   call, ret>>

\* Reset in the header, Start New Tournament on the champion screen
resetAll ==
    /\ players' = <<>>
    /\ groups' = <<>>
    /\ rounds' = <<>>
    /\ champion' = NoId
    /\ stage' = "setup"
    /\ UNCHANGED <<mode, target, bracketSkin, call, ret>>

\* { ...match, scoreA: sa, scoreB: sb, completed: true }
WithScores(m, sa, sb) == [m EXCEPT !.scoreA = sa, !.scoreB = sb, !.completed = TRUE]

\* mutant: the saved match replaces every match of the group
updateGroupMatchAll(gs, groupName, matchWithScores) ==
    [i \in DOMAIN gs |->
        IF gs[i].name # groupName THEN gs[i]
        ELSE [gs[i] EXCEPT !.matches =
                [k \in DOMAIN gs[i].matches |->
                    [matchWithScores EXCEPT !.completed = TRUE]]]]

updateGroupMatch(gs, groupName, matchWithScores) ==
    [i \in DOMAIN gs |->
        IF gs[i].name # groupName THEN gs[i]
        ELSE [gs[i] EXCEPT !.matches =
                [k \in DOMAIN gs[i].matches |->
                    IF gs[i].matches[k].id = matchWithScores.id
                    THEN [matchWithScores EXCEPT !.completed = TRUE]
                    ELSE gs[i].matches[k]]]]

\* mutant: the button is not disabled on a validator error
GroupsAfterSaveUngated(i, k, sa, sb) ==
    updateGroupMatch(groups, groups[i].name, WithScores(groups[i].matches[k], sa, sb))

\* Save Score on the card of match k of group i, with sa and sb in its two
\* inputs: the button is disabled while the validator reports an error,
\* otherwise onUpdateMatch(g.name, { ...match, scoreA, scoreB, completed })
GroupsAfterSave(i, k, sa, sb) ==
    IF validateCornholeScore(sa, sb, target) = Valid
    THEN updateGroupMatch(groups, groups[i].name,
                          WithScores(groups[i].matches[k], sa, sb))
    ELSE groups

SaveGroupScore(i, k, sa, sb) ==
    /\ GroupStageShown
    /\ i \in DOMAIN groups
    /\ k \in DOMAIN groups[i].matches
    /\ groups' = GroupsAfterSave(i, k, sa, sb)
    /\ UNCHANGED <<players, mode, stage, rounds, champion, target, bracketSkin,
                   call, ret>>

\* Generate Knockout Bracket, enabled once every group match is completed:
\* advanceToKnockout
advanceToKnockout ==
    /\ GroupStageShown
    /\ allCompleted
    /\ LET pairings == buildKnockout(groups, playersIndex, LastMatchId(groups, <<>>))
       IN  IF Len(pairings) = 0
           THEN UNCHANGED <<rounds, stage>>
           ELSE /\ rounds' = << pairings >>
                /\ stage' = "knockout"
    /\ UNCHANGED <<players, groups, mode, champion, target, bracketSkin, call, ret>>

\* winners of a round: the higher scorer of each match, b unless a scored more
Winners(round) ==
    [k \in DOMAIN round |->
        IF Gt(round[k].scoreA, round[k].scoreB) THEN round[k].a ELSE round[k].b]

NextRoundOf(winners, uid0) ==
    [k \in 1..((Len(winners) + 1) \div 2) |->
        NewMatch(uid0 + k, winners[2 * k - 1],
                 IF 2 * k <= Len(winners) THEN winners[2 * k] ELSE NoId)]

\* mutant: the id is not compared, every match of the round is replaced
RoundsAfterScoreWholeRound(rs, roundIndex, matchWithScores) ==
    [r \in DOMAIN rs |->
        IF r # roundIndex THEN rs[r]
        ELSE [k \in DOMAIN rs[r] |-> [matchWithScores EXCEPT !.completed = TRUE]]]

\* the rounds after submitKnockoutScore(roundIndex, matchWithScores)
RoundsAfterScore(rs, roundIndex, matchWithScores) ==
    [r \in DOMAIN rs |->
        IF r # roundIndex THEN rs[r]
        ELSE [k \in DOMAIN rs[r] |->
                IF rs[r][k].id = matchWithScores.id
                THEN [matchWithScores EXCEPT !.completed = TRUE]
                ELSE rs[r][k]]]

\* mutant: a round counts as complete once its first match is saved
RoundCompleteFirst(round) == round[1].completed

RoundComplete(round) == \A k \in DOMAIN round : round[k].completed

\* mutant: a single winner is paired into a further round like any others
submitKnockoutScoreNoFinal(r, matchWithScores) ==
    LET next == RoundsAfterScore(rounds, r, matchWithScores)
        winners == Winners(next[r])
    IN  IF ~RoundComplete(next[r])
        THEN [rounds |-> next, champion |-> champion, stage |-> stage]
        ELSE [rounds |-> Append(next, NextRoundOf(winners, LastMatchId(groups, next))),
              champion |-> champion, stage |-> stage]

\* rounds, champion and stage after submitKnockoutScore(r, matchWithScores)
submitKnockoutScore(r, matchWithScores) ==
    LET next == RoundsAfterScore(rounds, r, matchWithScores)
        winners == Winners(next[r])
    IN  IF ~RoundComplete(next[r])
        THEN [rounds |-> next, champion |-> champion, stage |-> stage]
        ELSE IF Len(winners) = 1
        THEN [rounds |-> next, champion |-> winners[1], stage |-> "champion"]
        ELSE [rounds |-> Append(next, NextRoundOf(winners, LastMatchId(groups, next))),
              champion |-> champion, stage |-> stage]

\* Save Score on the card of match k of round r, with sa and sb in its two
\* inputs: disabled while the validator reports an error
KnockoutAfterSave(r, k, sa, sb) ==
    IF validateCornholeScore(sa, sb, target) = Valid
    THEN submitKnockoutScore(r, WithScores(rounds[r][k], sa, sb))
    ELSE [rounds |-> rounds, champion |-> champion, stage |-> stage]

SaveKnockoutScore(r, k, sa, sb) ==
    /\ KnockoutShown
    /\ r \in DOMAIN rounds
    /\ k \in DOMAIN rounds[r]
    /\ LET after == KnockoutAfterSave(r, k, sa, sb)
       IN  /\ rounds' = after.rounds
           /\ champion' = after.champion
           /\ stage' = after.stage
    /\ UNCHANGED <<players, groups, mode, target, bracketSkin, call, ret>>

-----------------------------------------------------------------------------
(* The podium of the champion screen: getPodium *)

\* mutant: the comparison is turned round, the lower losing score is taken
BronzeIndexLower(losingScores) ==
    IF losingScores[2] < losingScores[1] THEN 2 ELSE 1

\* (losingScores[1] ?? -1) > (losingScores[0] ?? -1) ? 1 : 0, positions
\* counted from 1; an undefined score is the -1 of the `??`
BronzeIndex(losingScores) ==
    IF losingScores[2] > losingScores[1] THEN 2 ELSE 1

\* final.a === championId ? final.b : final.b === championId ? final.a
\*   : (final.scoreA > final.scoreB ? final.b : final.a)
SilverOf(final, championId) ==
    IF final.a = championId THEN final.b
    ELSE IF final.b = championId THEN final.a
    ELSE IF Gt(final.scoreA, final.scoreB) THEN final.b ELSE final.a

\* null and undefined are both NoId
getPodium(rs, championId) ==
    LET finalRound == rs[Len(rs)]
        semis == rs[Len(rs) - 1]
        losers == [k \in DOMAIN semis |->
                     IF Gt(semis[k].scoreA, semis[k].scoreB)
                     THEN semis[k].b ELSE semis[k].a]
        losingScores == [k \in DOMAIN semis |->
                           IF Gt(semis[k].scoreA, semis[k].scoreB)
                           THEN semis[k].scoreB ELSE semis[k].scoreA]
    IN  [gold |-> championId,
         silver |-> IF Len(rs) = 0 THEN NoId
                    ELSE IF Len(finalRound) = 0 THEN NoId
                    ELSE SilverOf(finalRound[1], championId),
         bronze |-> IF Len(rs) < 2 THEN NoId
                    ELSE IF Len(semis) < 2 THEN NoId
                    ELSE losers[BronzeIndex(losingScores)]]

-----------------------------------------------------------------------------
(* The tournament: what the user does with the page *)

\* The handlers above are the program.  The user is bounded: the scores typed
\* come from ScorePairs, the names and the draws of the shuffle from
\* SetupInputs, and
\*  - a group's matches are saved in the order of their cards, and a saved
\*    match can be saved again at any time,
\*  - in the group stage the second player wins on the first MaxUpsetCard
\*    cards of a group only,
\*  - the target is changed only while at most MaxStale matches are saved,
\*  - the bracket is not grown beyond MaxRounds rounds,
\*  - a tournament started while the champion of an earlier one is still
\*    held (no Reset in between) is set up but not played.

MaxRounds == 3

MaxUpsetCard == 1

MaxStale == 1

\* the pairs of scores typed into the two inputs of a match card
ScorePairs ==
    { << Undefined, 21 >>, << 21, 21 >>, << 22, 0 >>,
      << 21, 0 >>, << 0, 21 >>, << 11, 0 >> }

\* the outcomes of Math.random followed: no swap at all, or every element
\* swapped with the first
NoSwap(n) == [i \in 1..n |-> i]

SwapFirst(n) == [i \in 1..n |-> 1]

\* the name lists submitted with Start Tournament, the selected format and
\* the draws of the two shuffles (of the names, of the single-elimination ids)
SetupInputs ==
    { [names |-> << "baldy", "baldy", "baldy", "baldy" >>, mode |-> "single",
       draws1 |-> NoSwap(4), draws2 |-> NoSwap(4)],
      [names |-> << "baldy", "alfa", "baldy", "charlie" >>, mode |-> "single",
       draws1 |-> SwapFirst(4), draws2 |-> SwapFirst(4)],
      [names |-> << "baldy", "baldy", "baldy", "baldy" >>, mode |-> "groups",
       draws1 |-> NoSwap(4), draws2 |-> NoSwap(4)],
      [names |-> KnockoutNames, mode |-> "groups",
       draws1 |-> SwapFirst(8), draws2 |-> NoSwap(8)] }

SavedMatches(gs, rs) == { m \in AllMatches(gs, rs) : m.completed }

Upset(sc) == sc[1] # Undefined /\ sc[2] > sc[1]

\* the champion is none of the current players
StaleChampion ==
    champion # NoId /\ \A i \in DOMAIN players : players[i].id # champion

InCardOrder(i, k) == \A j \in 1..(k - 1) : groups[i].matches[j].completed

Init ==
    /\ AppInit
    /\ call = NoCall
    /\ ret = NoRet

Setup ==
    \E in \in SetupInputs : handleSetup(in.names, in.mode, in.draws1, in.draws2)

ChangeTarget ==
    \E v \in Targets :
        /\ Cardinality(SavedMatches(groups, rounds)) <= MaxStale
        /\ SetTarget(v)

GroupScore ==
    \E i \in DOMAIN groups, k \in 1..6, sc \in ScorePairs :
        /\ ~StaleChampion
        /\ InCardOrder(i, k)
        /\ Upset(sc) => k <= MaxUpsetCard
        /\ SaveGroupScore(i, k, sc[1], sc[2])

KnockoutScore ==
    \E r \in DOMAIN rounds :
        \E k \in DOMAIN rounds[r], sc \in ScorePairs :
            /\ ~StaleChampion
            /\ SaveKnockoutScore(r, k, sc[1], sc[2])
            /\ Len(rounds') <= MaxRounds

Next ==
    \/ Setup
    \/ ChangeTarget
    \/ GoSetup
    \/ GoGroups
    \/ GoKnockout
    \/ GoBracket
    \/ ViewBracket
    \/ resetAll
    \/ GroupScore
    \/ advanceToKnockout
    \/ KnockoutScore

Spec == Init /\ [][Next]_vars

-----------------------------------------------------------------------------
(* Claims about the tournament *)

ValidFor(m, t) ==
    /\ m.scoreA # Undefined
    /\ m.scoreB # Undefined
    /\ m.scoreA # m.scoreB
    /\ (IF m.scoreA > m.scoreB THEN m.scoreA ELSE m.scoreB) = t
    /\ (IF m.scoreA > m.scoreB THEN m.scoreB ELSE m.scoreA) < t

\* C2: in every reachable state every completed group or knockout match has
\* both scores set and unequal, the winner's score equal to the currently
\* configured target and the loser's score below it.
C2_CompletedValidForTarget ==
    \A m \in AllMatches(groups, rounds) : m.completed => ValidFor(m, target)

\* the matches that are completed after the step and were not there, with
\* these scores and completed, before it
NewlySaved ==
    { m \in SavedMatches(groups', rounds') : m \notin AllMatches(groups, rounds) }

\* C3: a score submission that fails the validator for the current target
\* changes nothing (no score, no completed flag, no round, stage and champion
\* as before), and a match becomes completed only with scores that passed
\* the validator.
C3_RejectedSubmission ==
    /\ [](\A sc \in ScorePairs :
            validateCornholeScore(sc[1], sc[2], target) # Valid =>
               /\ GroupStageShown =>
                    \A i \in DOMAIN groups : \A k \in DOMAIN groups[i].matches :
                       GroupsAfterSave(i, k, sc[1], sc[2]) = groups
               /\ KnockoutShown =>
                    \A r \in DOMAIN rounds : \A k \in DOMAIN rounds[r] :
                       KnockoutAfterSave(r, k, sc[1], sc[2])
                         = [rounds |-> rounds, champion |-> champion, stage |-> stage])
    /\ [][ (groups' # groups \/ rounds' # rounds) =>
              \A m \in NewlySaved :
                 validateCornholeScore(m.scoreA, m.scoreB, target) = Valid ]_vars

\* a group match and a knockout match were saved, and a card with an open
\* match is on the page
C3_Witness ==
    /\ KnockoutShown
    /\ \E m \in SavedMatches(groups, <<>>) : TRUE
    /\ \E m \in SavedMatches(<<>>, rounds) : TRUE
    /\ \E m \in AllMatches(<<>>, rounds) : ~m.completed

Pairing(m) == {m.a, m.b}

SameFixture(m, n) == m.id = n.id /\ m.a = n.a /\ m.b = n.b

\* C5: each group has exactly 4 players and exactly 6 matches whose pairs of
\* participants are the 6 pairs of the group's players, each once; saving a
\* group score changes no match's id or participants and adds or removes no
\* match.
C5_GroupFixtures ==
    /\ \A i \in DOMAIN groups :
         LET g == groups[i]
             ps == Range(g.players)
         IN  /\ Len(g.players) = 4
             /\ Cardinality(ps) = 4
             /\ Len(g.matches) = 6
             /\ \A pr \in { q \in SUBSET ps : Cardinality(q) = 2 } :
                  Cardinality({ k \in 1..6 : Pairing(g.matches[k]) = pr }) = 1
    /\ GroupStageShown =>
         \A i \in DOMAIN groups : \A k \in DOMAIN groups[i].matches :
            \A sc \in ScorePairs :
               LET after == GroupsAfterSave(i, k, sc[1], sc[2])
               IN  /\ Len(after) = Len(groups)
                   /\ \A j \in DOMAIN groups :
                        /\ after[j].name = groups[j].name
                        /\ after[j].players = groups[j].players
                        /\ Len(after[j].matches) = Len(groups[j].matches)
                        /\ \A n \in DOMAIN groups[j].matches :
                             SameFixture(after[j].matches[n], groups[j].matches[n])

\* both groups played to the end, a saved match saved again with the other
\* result
C5_Witness ==
    /\ Len(groups) = 2
    /\ allCompleted
    /\ groups[1].matches[1].scoreB = 21
    /\ groups[2].matches[6].scoreA = 21

\* the participant of a saved match with the higher score
HigherScorer(m) == IF m.scoreA > m.scoreB THEN m.a ELSE m.b

\* a step of the running tournament that leaves a bracket of one round none
\* of whose matches is played
FirstRoundCreated ==
    /\ players' = players
    /\ rounds' # rounds
    /\ Len(rounds') = 1
    /\ \A k \in DOMAIN rounds'[1] : ~rounds'[1][k].completed

\* a step of the running tournament that appends a round to the bracket
RoundAppended ==
    /\ players' = players
    /\ Len(rounds) >= 1
    /\ Len(rounds') = Len(rounds) + 1

\* C13: a knockout round is created only when its predecessor is complete:
\* the first round in groups mode only where every match of every group is
\* completed, and round k+1 only where every match of round k is completed.
C13_RoundAfterComplete ==
    [][ /\ (mode = "groups" /\ FirstRoundCreated) => allCompleted
        /\ RoundAppended => RoundComplete(rounds'[Len(rounds)]) ]_vars

\* C15: a score submission that completes a round of exactly one match sets
\* champion to that match's higher scorer and stage to champion and appends
\* no round; stage becomes champion in no other way, and no score submission
\* moves stage away from champion.
C15_ChampionBySoleMatch ==
    /\ [](KnockoutShown =>
            \A r \in DOMAIN rounds : \A sc \in ScorePairs :
                (Len(rounds[r]) = 1
                 /\ validateCornholeScore(sc[1], sc[2], target) = Valid)
                => LET after == KnockoutAfterSave(r, 1, sc[1], sc[2])
                   IN  /\ after.champion
                            = HigherScorer(WithScores(rounds[r][1], sc[1], sc[2]))
                       /\ after.stage = "champion"
                       /\ Len(after.rounds) = Len(rounds))
    /\ [][ /\ (stage # "champion" /\ stage' = "champion")
              => \E r \in DOMAIN rounds' :
                   /\ Len(rounds'[r]) = 1
                   /\ rounds'[r][1].completed
                   /\ champion' = HigherScorer(rounds'[r][1])
                   /\ Len(rounds') = Len(rounds)
           /\ (stage = "champion" /\ stage' # "champion") => NewlySaved = {} ]_vars

\* the final of a bracket of two rounds is saved and its winner is champion
C15_Witness ==
    /\ stage = "champion"
    /\ Len(rounds) = 2
    /\ Len(rounds[2]) = 1
    /\ rounds[2][1].completed
    /\ champion = HigherScorer(rounds[2][1])
    /\ champion # NoId

\* C16: the lengths of the rounds of the bracket are powers of two, each round
\* is half as long as the one before it, and a round of length 1 is the last.
C16_RoundsHalve ==
    \A r \in DOMAIN rounds :
        /\ Len(rounds[r]) >= 1
        /\ isPowerOfTwo(Len(rounds[r]))
        /\ r > 1 => 2 * Len(rounds[r]) = Len(rounds[r - 1])
        /\ Len(rounds[r]) = 1 => r = Len(rounds)

\* the ids and participants of the matches of a round
Fixtures(round) == [k \in DOMAIN round |-> << round[k].id, round[k].a, round[k].b >>]

\* C17: within one tournament, once a second round exists no step replaces a
\* round of the bracket, and a round is appended only by the step that
\* completes the last round, so that every round index is created once.
C17_NoRoundRegenerated ==
    [][ (players' = players /\ Len(rounds) >= 2)
        => /\ Len(rounds') >= Len(rounds)
           /\ \A r \in DOMAIN rounds : Fixtures(rounds'[r]) = Fixtures(rounds[r])
           /\ Len(rounds') > Len(rounds)
              => /\ Len(rounds') = Len(rounds) + 1
                 /\ ~RoundComplete(rounds[Len(rounds)])
                 /\ RoundComplete(rounds'[Len(rounds)]) ]_vars

\* C21: whenever stage is champion, the podium's gold is the champion and its
\* silver is the losing finalist: the last round is one match, silver is a
\* participant of it other than gold, and has the lower score in it.
C21_SilverIsLosingFinalist ==
    stage = "champion" =>
        /\ Len(rounds) >= 1
        /\ LET p == getPodium(rounds, champion)
               last == rounds[Len(rounds)]
           IN  /\ p.gold = champion
               /\ Len(last) = 1
               /\ p.silver \in { last[1].a, last[1].b }
               /\ p.silver # p.gold
               /\ last[1].completed
               /\ IF p.silver = last[1].a
                  THEN last[1].scoreA < last[1].scoreB
                  ELSE last[1].scoreB < last[1].scoreA

\* a tournament of 8 players in groups mode
EightInGroups == mode = "groups" /\ Len(players) = 8

\* 2 groups of 4 players with 6 matches each, 12 in total
TwoGroupsOfFour ==
    /\ Len(groups) = 2
    /\ \A i \in DOMAIN groups :
         Len(groups[i].players) = 4 /\ Len(groups[i].matches) = 6

\* the first knockout round, once generated, has exactly 2 matches
FirstKnockoutRoundOfTwo == rounds # << >> => Len(rounds[1]) = 2

\* the save that completes the first knockout round declares a champion
ChampionAfterFirstRound ==
    (KnockoutShown /\ Len(rounds) = 1 /\ champion = NoId) =>
        \A k \in DOMAIN rounds[1], sc \in ScorePairs :
            LET after == KnockoutAfterSave(1, k, sc[1], sc[2])
            IN  ( /\ validateCornholeScore(sc[1], sc[2], target) = Valid
                  /\ RoundComplete(after.rounds[1]) )
                => after.stage = "champion" /\ after.champion # NoId

\* C25: in groups mode with 8 players, setup creates 2 groups of 4 with 12
\* matches in total (6 each); the knockout generated after all 12 are scored
\* has a first round of exactly 2 matches; when those 2 matches are complete a
\* champion is declared and stage becomes champion.
C25_GroupsEndToEnd ==
    EightInGroups =>
        /\ TwoGroupsOfFour
        /\ FirstKnockoutRoundOfTwo
        /\ ChampionAfterFirstRound

\* C26: Reset, from any reachable state, returns to the initial empty
\* configuration: afterwards players, groups and rounds are empty, champion is
\* absent, stage is setup, and mode and target have their initial values
\* (groups, 21).
C26_ResetRestoresInitial ==
    [][resetAll =>
        /\ players' = << >> /\ groups' = << >> /\ rounds' = << >>
        /\ champion' = NoId
        /\ stage' = "setup"
        /\ mode' = "groups"
        /\ target' = DefaultTarget]_vars

\* C31: in every reachable state in which round k+1 exists, match i of round
\* k+1 is played by the current higher scorers of matches 2i and 2i+1
\* (counted from 0) of round k: saving a match of an advanced round again
\* leaves no later round with a player who is no longer that match's winner.
C31_LaterRoundsHoldWinners ==
    \A r \in DOMAIN rounds : (r + 1) \in DOMAIN rounds =>
        \A i \in DOMAIN rounds[r + 1] :
            /\ 2 * i <= Len(rounds[r])
            /\ rounds[r + 1][i].a = HigherScorer(rounds[r][2 * i - 1])
            /\ rounds[r + 1][i].b = HigherScorer(rounds[r][2 * i])

-----------------------------------------------------------------------------
(* Setting up tournaments of every size the setup form offers *)

MaxCountStep == 8

\* the player counts of the Players select: 4, 8, 12, ... 32
SetupCounts == { GroupSize * c : c \in 1..MaxCountStep }

NamesOfLen(n) == [i \in 1..n |-> NameOrder[(i % 5) + 2]]

SwapNext(n) == [i \in 1..n |-> IF i = 1 THEN 1 ELSE i - 1]

SetupDraws(n) == { NoSwap(n), SwapFirst(n), SwapNext(n) }

SetupAny ==
    \E n \in SetupCounts, m \in {"groups", "single"} :
        \E d1 \in SetupDraws(n), d2 \in SetupDraws(n) :
            handleSetup(NamesOfLen(n), m, d1, d2)

NextSetup ==
    \/ SetupAny
    \/ GoSetup
    \/ resetAll

SpecSetup == Init /\ [][NextSetup]_vars

PlayerIds == { players[i].id : i \in DOMAIN players }

\* C6: after an accepted groups-mode setup with N names there are N players
\* with pairwise distinct ids and N/4 groups labelled A, B, C, ... in order,
\* and the groups' player lists partition the player set: every player id is
\* in exactly one group, once, and no group holds an id that is no player.
C6_GroupsPartitionPlayers ==
    groups # <<>> =>
        /\ Cardinality(PlayerIds) = Len(players)
        /\ Len(players) % 4 = 0
        /\ Len(groups) = Len(players) \div 4
        /\ \A i \in DOMAIN groups : groups[i].name = GroupLabels[i]
        /\ \A pid \in PlayerIds :
             Cardinality({ << i, k >> \in (DOMAIN groups) \X (1..GroupSize) :
                             k \in DOMAIN groups[i].players
                             /\ groups[i].players[k] = pid }) = 1
        /\ \A i \in DOMAIN groups : Range(groups[i].players) \subseteq PlayerIds

\* twelve shuffled players in three groups
C6_Witness ==
    /\ stage = "groups"
    /\ Len(players) = 12
    /\ Len(groups) = 3
    /\ players[1].name # NamesOfLen(12)[1]

\* the counts the two checks of handleSetup are asked about
MaxCheckedCount == 40

\* Start Tournament with n names in format m is accepted: it leaves the setup
\* stage
Accepts(n, m) == AfterSetup(NamesOfLen(n), m, NoSwap(n), NoSwap(n)).stage # "setup"

\* C19: setup is accepted in single mode iff the count is 4, 8, 16 or 32 and
\* in groups mode iff it is a multiple of 4 from 8 to 32; isPowerOfTwo is
\* true for 4, 8, 16, 32 and false for 6 and 12; an accepted single setup
\* gives stage knockout with one round of count/2 matches and no groups, an
\* accepted groups setup stage groups with no rounds.
C19_SetupAcceptedIff ==
    /\ \A n \in {4, 8, 16, 32} : isPowerOfTwo(n)
    /\ ~isPowerOfTwo(6) /\ ~isPowerOfTwo(12)
    /\ \A n \in 1..MaxCheckedCount :
         /\ SingleCountOk(n) <=> n \in {4, 8, 16, 32}
         /\ GroupsCountOk(n) <=> (n % 4 = 0 /\ n >= 8 /\ n <= 32)
    /\ SetupShown =>
         \A n \in SetupCounts :
            /\ Accepts(n, "single") <=> n \in {4, 8, 16, 32}
            /\ Accepts(n, "groups") <=> (n % 4 = 0 /\ n >= 8 /\ n <= 32)
    /\ stage = "knockout" =>
         /\ mode = "single"
         /\ Len(players) \in {4, 8, 16, 32}
         /\ Len(rounds) = 1
         /\ 2 * Len(rounds[1]) = Len(players)
         /\ groups = << >>
    /\ stage = "groups" =>
         /\ mode = "groups"
         /\ Len(players) % 4 = 0 /\ Len(players) >= 8 /\ Len(players) <= 32
         /\ groups # << >>
         /\ rounds = << >>

\* a single-elimination tournament of 16 players is set up
C19_Witness ==
    /\ stage = "knockout"
    /\ mode = "single"
    /\ Len(players) = 16
    /\ Len(rounds) = 1
    /\ Len(rounds[1]) = 8

\* the count is refused for the format: no power of two from 4 to 32 in single
\* mode, no multiple of 4 from 8 to 32 in groups mode
CountRefused(n, m) ==
    IF m = "single" THEN n \notin {4, 8, 16, 32}
    ELSE ~(n % 4 = 0 /\ n >= 8 /\ n <= 32)

\* C20: a setup command rejected for its player count has no effect: players,
\* groups, mode, stage and rounds are after the command what they were before
\* it (handleSetup never writes champion or target).
C20_RejectedSetupNoEffect ==
    SetupShown =>
        \A n \in SetupCounts, m \in {"groups", "single"} :
            CountRefused(n, m) =>
                LET after == AfterSetup(NamesOfLen(n), m, NoSwap(n), NoSwap(n))
                IN  /\ after.players = players
                    /\ after.groups = groups
                    /\ after.mode = mode
                    /\ after.stage = stage
                    /\ after.rounds = rounds

\* C32: in every reachable state champion is set only if the last round of
\* the current bracket is exactly one completed match whose higher scorer is
\* champion, a player of the current tournament: a setup issued after a
\* champion was crowned does not leave the previous champion in the state.
C32_ChampionOfCurrentBracket ==
    champion # NoId =>
        /\ rounds # << >>
        /\ Len(rounds[Len(rounds)]) = 1
        /\ rounds[Len(rounds)][1].completed
        /\ champion = HigherScorer(rounds[Len(rounds)][1])
        /\ champion \in PlayerIds

\* C33: in groups mode, in every reachable state in which a knockout bracket
\* exists, the participants of knockout round 0 are the current top-2 rows of
\* the paired groups' standings: a group score saved after the bracket was
\* generated cannot make round 0 disagree with the standings.
C33_RoundZeroFollowsStandings ==
    (mode = "groups" /\ groups # << >> /\ rounds # << >>) =>
        LET current == buildKnockout(groups, playersIndex, 0)
        IN  /\ Len(rounds[1]) = Len(current)
            /\ \A i \in DOMAIN rounds[1] :
                 /\ rounds[1][i].a = current[i].a
                 /\ rounds[1][i].b = current[i].b

\* C34: a score submission changes only the targeted match.
\* updateGroupMatch changes scoreA, scoreB and completed of the match with
\* that id in that group and leaves every other group, every other match,
\* players, rounds, stage, champion and target as they were;
\* submitKnockoutScore changes only the match with that id in that round,
\* leaves groups, players, target and every other existing match as they
\* were, and appends at most one round.
C34_OnlyTargetedMatch ==
    /\ [](GroupStageShown =>
            \A i \in DOMAIN groups : \A k \in DOMAIN groups[i].matches :
               \A sc \in ScorePairs :
                  LET after == GroupsAfterSave(i, k, sc[1], sc[2])
                  IN  /\ DOMAIN after = DOMAIN groups
                      /\ \A j \in DOMAIN groups :
                           /\ j # i => after[j] = groups[j]
                           /\ after[j].name = groups[j].name
                           /\ after[j].players = groups[j].players
                           /\ DOMAIN after[j].matches = DOMAIN groups[j].matches
                      /\ \A n \in DOMAIN groups[i].matches :
                           /\ n # k => after[i].matches[n] = groups[i].matches[n]
                           /\ SameFixture(after[i].matches[n], groups[i].matches[n]))
    /\ [](KnockoutShown =>
            \A r \in DOMAIN rounds : \A k \in DOMAIN rounds[r] :
               \A sc \in ScorePairs :
                  LET after == KnockoutAfterSave(r, k, sc[1], sc[2]).rounds
                  IN  /\ Len(after) \in { Len(rounds), Len(rounds) + 1 }
                      /\ \A q \in DOMAIN rounds :
                           /\ DOMAIN after[q] = DOMAIN rounds[q]
                           /\ \A n \in DOMAIN rounds[q] :
                                /\ (q # r \/ n # k) => after[q][n] = rounds[q][n]
                                /\ SameFixture(after[q][n], rounds[q][n]))
    /\ [][ /\ (GroupStageShown /\ groups' # groups /\ groups' # << >>)
              => UNCHANGED <<players, rounds, stage, champion, target>>
           /\ (KnockoutShown /\ rounds' # rounds /\ rounds' # << >>)
              => UNCHANGED <<groups, players, target>> ]_vars

\* in a groups tournament a group match won by its second player is saved,
\* and the saves of the first knockout round appended the final
C34_Witness ==
    /\ mode = "groups"
    /\ KnockoutShown
    /\ Len(rounds) = 2
    /\ RoundComplete(rounds[1])
    /\ ~RoundComplete(rounds[2])
    /\ \E i \in DOMAIN groups : \E m \in Range(groups[i].matches) :
         m.completed /\ m.scoreB > m.scoreA

-----------------------------------------------------------------------------
(* Playing a bracket through, each match saved once *)

\* every group match saved 21-0
PlayedGroups(gs) ==
    [i \in DOMAIN gs |->
        [gs[i] EXCEPT !.matches =
            [k \in DOMAIN gs[i].matches |-> WithScores(gs[i].matches[k], 21, 0)]]]

\* the tournaments played: single elimination with 4 and 8 players, and 24
\* players in six groups
BracketSetups ==
    { [count |-> 4, mode |-> "single"], [count |-> 8, mode |-> "single"],
      [count |-> 24, mode |-> "groups"] }

\* the state in which the first knockout round is on the page: after
\* handleSetup in single mode; in groups mode after handleSetup, Save Score
\* on every group card and advanceToKnockout
InitBracket ==
    /\ call = NoCall
    /\ ret = NoRet
    /\ champion = NoId
    /\ target = DefaultTarget
    /\ bracketSkin = FALSE
    /\ stage = "knockout"
    /\ \E in \in BracketSetups :
         LET seeded == SeedPlayers(NamesOfLen(in.count), NoSwap(in.count), 0)
             ids == [i \in DOMAIN seeded |-> seeded[i].id]
             played == PlayedGroups(BuildGroups(seeded))
         IN  /\ players = seeded
             /\ mode = in.mode
             /\ IF in.mode = "single"
                THEN /\ groups = <<>>
                     /\ rounds = << buildSingleElimFirstRound(ids, NoSwap(in.count), 0) >>
                ELSE /\ groups = played
                     /\ rounds = << buildKnockout(played, PlayersIndexOf(seeded),
                                                  LastMatchId(played, <<>>)) >>

\* the pairs of scores typed into a card of the bracket
BracketScores == { << 21, 0 >>, << 0, 21 >>, << 21, 21 >> }

\* Save Score on the first card of the newest round that is not yet saved
BracketScore ==
    \E k \in DOMAIN rounds[Len(rounds)], sc \in BracketScores :
        /\ ~rounds[Len(rounds)][k].completed
        /\ \A j \in 1..(k - 1) : rounds[Len(rounds)][j].completed
        /\ SaveKnockoutScore(Len(rounds), k, sc[1], sc[2])

NextBracket == BracketScore

SpecBracket == InitBracket /\ [][NextBracket]_vars

\* C14: a submission that makes every match of a round of more than one
\* match complete appends a round in which match i pairs the higher scorers
\* of matches 2i and 2i+1 (counted from 0) of the completed round, in that
\* order, unscored and not completed; a round of 4 yields a round of 2.
C14_WinnersPairedInOrder ==
    KnockoutShown =>
        \A r \in DOMAIN rounds : \A k \in DOMAIN rounds[r], sc \in BracketScores :
            LET after == KnockoutAfterSave(r, k, sc[1], sc[2])
                done == after.rounds[r]
                new == after.rounds[Len(after.rounds)]
            IN  ( /\ validateCornholeScore(sc[1], sc[2], target) = Valid
                  /\ Len(done) > 1
                  /\ RoundComplete(done) )
                => /\ Len(after.rounds) = Len(rounds) + 1
                   /\ 2 * Len(new) = Len(done)
                   /\ Len(done) = 4 => Len(new) = 2
                   /\ \A i \in DOMAIN new :
                        /\ new[i].a = HigherScorer(done[2 * i - 1])
                        /\ new[i].b = HigherScorer(done[2 * i])
                        /\ new[i].a # NoId /\ new[i].b # NoId
                        /\ new[i].scoreA = Undefined /\ new[i].scoreB = Undefined
                        /\ ~new[i].completed

\* the participants of a round, match by match
ParticipantsOf(round) ==
    [j \in 1..(2 * Len(round)) |->
        IF j % 2 = 1 THEN round[(j + 1) \div 2].a ELSE round[j \div 2].b]

\* C30: in every reachable state every match of every knockout round has two
\* defined and distinct participants, both players of the current tournament,
\* and no player is in two matches of one round; this holds for every allowed
\* count of players in both modes, 24 players in groups mode included.
C30_MatchesWellFormed ==
    \A r \in DOMAIN rounds :
        LET ps == ParticipantsOf(rounds[r])
        IN  /\ \A j \in DOMAIN ps : ps[j] # NoId /\ ps[j] \in PlayerIds
            /\ \A i, j \in DOMAIN ps : ps[i] = ps[j] => i = j

-----------------------------------------------------------------------------
(* buildSingleElimFirstRound applied on its own *)

\* every sequence of draws for 8 elements: one for the first four positions
\* joined with one for the last four
AllDraws8 ==
    { [i \in 1..8 |-> IF i <= 4 THEN lo[i] ELSE hi[i - 4]] :
        lo \in AllDraws(4),
        hi \in { h \in [1..4 -> 1..8] : \A j \in 1..4 : h[j] <= j + 4 } }

\* the draws followed for n elements: all of them up to 8 elements, beyond
\* that no swap, every element swapped with the first, with its predecessor
FirstRoundDraws(n) ==
    IF n = 4 THEN AllDraws(4)
    ELSE IF n = 8 THEN AllDraws8
    ELSE { NoSwap(n), SwapFirst(n), SwapNext(n) }

\* n distinct ids, counted up or down
FirstRoundIds(n) == { [i \in 1..n |-> i], [i \in 1..n |-> 2 * n + 1 - i] }

InitFirstRound ==
    /\ AppInit
    /\ \E n \in {4, 8, 16, 32} :
         \E ids \in FirstRoundIds(n), draws \in FirstRoundDraws(n) :
            call = [ids |-> ids, draws |-> draws]
    /\ ret = NoRet

ApplyFirstRound ==
    /\ ret = NoRet
    /\ ret' = << buildSingleElimFirstRound(call.ids, call.draws, 0) >>
    /\ UNCHANGED <<appVars, call>>

NextFirstRound == ApplyFirstRound

SpecFirstRound == InitFirstRound /\ [][NextFirstRound]_vars

\* C18: for N distinct ids, N in {4, 8, 16, 32}, and every outcome of the
\* shuffle, buildSingleElimFirstRound returns N/2 matches in which every id
\* appears exactly once, each between two distinct participants, unscored
\* and not completed.
C18_FirstRoundCoversIds ==
    ret # NoRet =>
        LET out == ret[1]
            n == Len(call.ids)
        IN  /\ 2 * Len(out) = n
            /\ \A id \in Range(call.ids) :
                 Cardinality({ k \in DOMAIN out : out[k].a = id })
                   + Cardinality({ k \in DOMAIN out : out[k].b = id }) = 1
            /\ \A k \in DOMAIN out :
                 /\ out[k].a # out[k].b
                 /\ out[k].scoreA = Undefined /\ out[k].scoreB = Undefined
                 /\ ~out[k].completed

\* sixteen ids, shuffled, in eight matches
C18_Witness ==
    /\ ret # NoRet
    /\ Len(call.ids) = 16
    /\ Len(ret[1]) = 8
    /\ ret[1][1].a # call.ids[1]

-----------------------------------------------------------------------------
(* getPodium applied on its own *)

\* what a saved match holds: won by its first or its second player, the
\* loser with 0 or with 15
SavedOutcomes ==
    { [scoreA |-> 21, scoreB |-> 0, completed |-> TRUE],
      [scoreA |-> 21, scoreB |-> 15, completed |-> TRUE],
      [scoreA |-> 0, scoreB |-> 21, completed |-> TRUE],
      [scoreA |-> 15, scoreB |-> 21, completed |-> TRUE] }

\* what a match that was never saved holds
OpenOutcome == [scoreA |-> Undefined, scoreB |-> Undefined, completed |-> FALSE]

\* the round with outs[k] on match k
PlayedRound(round, outs) ==
    [k \in DOMAIN round |->
        [round[k] EXCEPT !.scoreA = outs[k].scoreA, !.scoreB = outs[k].scoreB,
                         !.completed = outs[k].completed]]

\* a first round of n matches between the players 1 .. 2n
FirstRoundOf(n) == [k \in 1..n |-> NewMatch(k, 2 * k - 1, 2 * k)]

\* a bracket of one round of n matches, played in part
OneRound(n) ==
    { << PlayedRound(FirstRoundOf(n), outs) >> :
        outs \in [1..n -> SavedOutcomes \cup { OpenOutcome }] }

\* a bracket of two rounds: n matches, all saved, and the round of their
\* winners, played in part
TwoRounds(n) ==
    { LET first == PlayedRound(FirstRoundOf(n), outs)
      IN  << first, PlayedRound(NextRoundOf(Winners(first), n), fin) >> :
        outs \in [1..n -> SavedOutcomes],
        fin \in [1..((n + 1) \div 2) ->
                   { [scoreA |-> 21, scoreB |-> 0, completed |-> TRUE],
                     [scoreA |-> 15, scoreB |-> 21, completed |-> TRUE],
                     OpenOutcome }] }

\* the brackets handed to getPodium: none, one round, two rounds
PodiumRounds ==
    { << >> } \cup OneRound(1) \cup OneRound(2) \cup TwoRounds(2) \cup TwoRounds(3)
    \cup TwoRounds(4)

\* the champion handed over: none yet, or a participant of the last round's
\* first match
PodiumChampions(rs) ==
    IF rs = << >> THEN { NoId }
    ELSE { NoId, rs[Len(rs)][1].a, rs[Len(rs)][1].b }

InitPodium ==
    /\ AppInit
    /\ \E rs \in PodiumRounds : \E c \in PodiumChampions(rs) :
         call = [rounds |-> rs, championId |-> c]
    /\ ret = NoRet

ApplyPodium ==
    /\ ret = NoRet
    /\ ret' = << getPodium(call.rounds, call.championId) >>
    /\ UNCHANGED <<appVars, call>>

NextPodium == ApplyPodium

SpecPodium == InitPodium /\ [][NextPodium]_vars

\* the loser of a saved match and the score the loser made
LoserOf(m) == IF m.scoreA > m.scoreB THEN m.b ELSE m.a

LosingScore(m) == IF m.scoreA > m.scoreB THEN m.scoreB ELSE m.scoreA

\* the second-to-last round of the bracket handed over has exactly two
\* matches, both completed
TwoSemisPlayed ==
    /\ Len(call.rounds) >= 2
    /\ Len(call.rounds[Len(call.rounds) - 1]) = 2
    /\ \A k \in 1..2 : call.rounds[Len(call.rounds) - 1][k].completed

\* C22: when the second-to-last round has exactly two completed matches
\* whose losing scores differ, bronze is the loser of the match with the
\* higher losing score.
C22_BronzeHigherLosingScore ==
    (ret # NoRet /\ TwoSemisPlayed) =>
        LET semis == call.rounds[Len(call.rounds) - 1]
        IN  /\ LosingScore(semis[1]) > LosingScore(semis[2])
               => ret[1].bronze = LoserOf(semis[1])
            /\ LosingScore(semis[2]) > LosingScore(semis[1])
               => ret[1].bronze = LoserOf(semis[2])

\* player 2 lost the first semifinal 0-21, player 4 the second 15-21
C22_Witness ==
    /\ ret # NoRet
    /\ TwoSemisPlayed
    /\ Len(call.rounds) = 2
    /\ LosingScore(call.rounds[1][1]) = 0 /\ LoserOf(call.rounds[1][1]) = 2
    /\ LosingScore(call.rounds[1][2]) = 15 /\ LoserOf(call.rounds[1][2]) = 4
    /\ ret[1].bronze = 4

\* C23: when the two semifinal losers have equal losing scores, bronze is the
\* loser of the second semifinal, the match at index 1 of the second-to-last
\* round.
C23_BronzeTieSecondSemifinal ==
    (ret # NoRet /\ TwoSemisPlayed) =>
        LET semis == call.rounds[Len(call.rounds) - 1]
        IN  LosingScore(semis[1]) = LosingScore(semis[2])
            => ret[1].bronze = LoserOf(semis[2])

\* C24: getPodium leaves silver null unless the last round holds exactly one
\* match, and bronze null unless there are two rounds or more and the
\* second-to-last holds exactly two matches; both are null with no rounds,
\* bronze is null with a single round.
C24_PodiumNullUnlessShaped ==
    ret # NoRet =>
        LET rs == call.rounds
        IN  /\ (rs = << >> \/ Len(rs[Len(rs)]) # 1) => ret[1].silver = NoId
            /\ (Len(rs) < 2 \/ Len(rs[Len(rs) - 1]) # 2) => ret[1].bronze = NoId


-----------------------------------------------------------------------------
(* A single-elimination tournament played to its end *)

\* Start Tournament in single mode with 4 or 8 names on the untouched page,
\* then nothing but Save Score with a valid result on a card of the newest
\* round that is not saved yet.
RunCounts == { 4, 8 }

RunScores == { << 21, 0 >>, << 0, 21 >>, << 15, 21 >> }

StartSingle ==
    /\ stage = "setup"
    /\ players = << >>
    /\ \E n \in RunCounts : \E d \in { NoSwap(n), SwapFirst(n) } :
         handleSetup(NamesOfLen(n), "single", NoSwap(n), d)

PlayNewest ==
    /\ rounds # << >>
    /\ \E k \in DOMAIN rounds[Len(rounds)], sc \in RunScores :
         /\ ~rounds[Len(rounds)][k].completed
         /\ SaveKnockoutScore(Len(rounds), k, sc[1], sc[2])

NextRun == StartSingle \/ PlayNewest

\* the user keeps saving: while a card of the newest round is open, one is
\* saved eventually
SpecRun == Init /\ [][NextRun]_vars /\ WF_vars(PlayNewest)

RECURSIVE Log2(_)
Log2(n) == IF n <= 1 THEN 0 ELSE 1 + Log2(n \div 2)

\* one round is appended at a time, and only behind a complete round
RoundsInOrder ==
    \/ rounds' = << >>
    \/ Len(rounds') = Len(rounds) /\ ~RoundComplete(rounds'[Len(rounds')])
    \/ Len(rounds') = Len(rounds) /\ stage' = "champion"
    \/ /\ Len(rounds') = Len(rounds) + 1
       /\ rounds # << >> => RoundComplete(rounds'[Len(rounds)])
       /\ rounds # << >> => 2 * Len(rounds'[Len(rounds')]) = Len(rounds[Len(rounds)])

\* C28: from an accepted single-mode setup with N in {4, 8} players, when
\* every open match of the newest round eventually receives a valid score
\* and nothing else is done, stage eventually becomes champion, after exactly
\* N - 1 completed matches and exactly log2(N) rounds, the rounds being
\* passed in order, none skipped.
C28_RunReachesChampion ==
    /\ (stage = "knockout") ~> (stage = "champion")
    /\ [](stage = "champion" =>
            /\ Cardinality(SavedMatches(groups, rounds)) = Len(players) - 1
            /\ Len(rounds) = Log2(Len(players))
            /\ \A r \in DOMAIN rounds : RoundComplete(rounds[r]))
    /\ [][RoundsInOrder]_vars

C28_Witness ==
    /\ stage = "champion"
    /\ mode = "single"
    /\ Len(players) = 8
    /\ Len(rounds) = 3
    /\ Cardinality(SavedMatches(groups, rounds)) = 7
    /\ champion # NoId


-----------------------------------------------------------------------------
(* shuffle applied on its own *)

\* the arrays shuffled: empty, of distinct elements up to length 5, and one
\* with an element twice
ShuffleInputs ==
    { << >>, << 7 >>, << 1, 2 >>, << 3, 1, 2 >>, << 1, 2, 3, 4 >>,
      << 5, 4, 3, 2, 1 >>, << 1, 1, 2 >> }

InitShuffle ==
    /\ AppInit
    /\ \E arr \in ShuffleInputs : \E d \in AllDraws(Len(arr)) :
         call = [arr |-> arr, draws |-> d]
    /\ ret = NoRet

ApplyShuffle ==
    /\ ret = NoRet
    /\ ret' = << [result |-> shuffle(call.arr, call.draws),
                  arr |-> ArrAfterShuffle(call.arr, call.draws)] >>
    /\ UNCHANGED <<appVars, call>>

NextShuffle == ApplyShuffle

SpecShuffle == InitShuffle /\ [][NextShuffle]_vars

RECURSIVE Factorial(_)
Factorial(n) == IF n <= 1 THEN 1 ELSE n * Factorial(n - 1)

Occurrences(x, s) == Cardinality({ i \in DOMAIN s : s[i] = x })

IsPermutationOf(s, t) ==
    /\ Len(s) = Len(t)
    /\ \A x \in Range(s) \cup Range(t) : Occurrences(x, s) = Occurrences(x, t)

Distinct(s) == \A i, j \in DOMAIN s : s[i] = s[j] => i = j

\* C29: for every sequence of draws (draw i in 0..i) shuffle returns a
\* permutation of its input and leaves the input as it was; for n distinct
\* elements the n! sequences of draws give n! different results, so every
\* permutation comes from exactly one sequence of draws.
C29_ShuffleBijection ==
    ret # NoRet =>
        LET n == Len(call.arr)
            results == { shuffle(call.arr, d) : d \in AllDraws(n) }
        IN  /\ IsPermutationOf(ret[1].result, call.arr)
            /\ ret[1].arr = call.arr
            /\ Cardinality(AllDraws(n)) = Factorial(n)
            /\ Distinct(call.arr) =>
                 /\ \A d \in AllDraws(n) :
                      shuffle(call.arr, d) = ret[1].result => d = call.draws
                 /\ Cardinality(results) = Factorial(n)
                 /\ \A p \in results : IsPermutationOf(p, call.arr)

\* the draws 1, 1, 3, 2, 2 turn 5 4 3 2 1 into 2 5 3 1 4
C29_Witness ==
    /\ ret # NoRet
    /\ call.arr = << 5, 4, 3, 2, 1 >>
    /\ call.draws = << 1, 1, 3, 2, 2 >>
    /\ ret[1].result = << 2, 5, 3, 1, 4 >>
    /\ ret[1].arr = << 5, 4, 3, 2, 1 >>

====
